---- MODULE Spec2Model ----
(***************************************************************************)
(* State-machine model of the ride-share board in src/app.py: the trip     *)
(* store (the in-memory fallback list or the MongoDB collection), the      *)
(* post / search / manage handlers of one script run, the expiry sweeper,  *)
(* the duplicate guard, the matching engine and the notification           *)
(* dispatcher.                                                             *)
(*                                                                         *)
(* Python strings are sequences of one-character strings, so that strip,   *)
(* lower, replace, split and the substring test `in` are computed as the   *)
(* interpreter computes them.  Dates are calendar triples formatted to     *)
(* ISO strings and compared as strings, as the code does.  The similarity  *)
(* scores 1.0 / 0.5 and the mid-times x / 2.0 are kept as twice their      *)
(* value so that they stay integers; orderings are unchanged.              *)
(* Display-only fields of a trip (time_from / time_to strings, age,        *)
(* gender, is_student, exact_location, created_at) are not kept.           *)
(***************************************************************************)
EXTENDS Integers, Sequences, FiniteSets, TLC

VARIABLES
    mongo,      \* col is not None: TRUE for MongoDB, FALSE for the in-memory list
    store,      \* st.session_state["_mem_docs"] or the collection, in insertion order
    today,      \* day number of date.today()
    nextOid,    \* the next ObjectId the driver hands out
    last,       \* what the last handler did and showed
    phase,      \* "idle" between script runs, "run" once a run has swept
    sessions    \* per browser session: where its post stands between the
                \* existence check and the insert

vars == <<mongo, store, today, nextOid, last, phase, sessions>>

(***************************** bounds **************************************)
MaxDocs == 2        \* posts are accepted while the store holds fewer records
MaxDay == 2         \* the clock stops advancing at this day number
MaxOid == 3         \* ObjectIds handed out in one behaviour

(***************************** Python strings ******************************)
None == <<"<None>">>

LowerChar(c) ==
    CASE c = "A" -> "a" [] c = "B" -> "b" [] c = "C" -> "c" [] c = "L" -> "l"
      [] c = "N" -> "n" [] c = "O" -> "o" [] c = "Y" -> "y"
      [] OTHER -> c

lower(s) == [i \in 1..Len(s) |-> LowerChar(s[i])]

RECURSIVE lstrip(_)
lstrip(s) == IF Len(s) > 0 /\ s[1] = " " THEN lstrip(Tail(s)) ELSE s

RECURSIVE rstrip(_)
rstrip(s) ==
    IF Len(s) > 0 /\ s[Len(s)] = " " THEN rstrip(SubSeq(s, 1, Len(s) - 1)) ELSE s

strip(s) == rstrip(lstrip(s))

\* s.replace(' ', '')
replace_spaces(s) == SelectSeq(s, LAMBDA c : c # " ")

\* a in b, for strings
str_in(a, b) == \E i \in 0..(Len(b) - Len(a)) : SubSeq(b, i + 1, i + Len(a)) = a

\* the length of the first whitespace-free run of s (s starts with no space)
RECURSIVE WordLen(_)
WordLen(s) == IF Len(s) = 0 \/ s[1] = " " THEN 0 ELSE 1 + WordLen(Tail(s))

\* s.split(): the whitespace-separated words, none of them empty
RECURSIVE split(_)
split(s) ==
    LET t == lstrip(s)
        n == WordLen(t)
    IN  IF Len(t) = 0 THEN <<>>
        ELSE <<SubSeq(t, 1, n)>> \o split(SubSeq(t, n + 1, Len(t)))

\* bool(s) of a string, and of an Optional[str]
truthy(s) == s # None /\ Len(s) > 0

\* ord() of the characters an ISO date holds
Ord(c) ==
    CASE c = "-" -> 45 [] c = "0" -> 48 [] c = "1" -> 49 [] c = "2" -> 50
      [] c = "3" -> 51 [] c = "4" -> 52 [] c = "5" -> 53 [] c = "6" -> 54
      [] c = "7" -> 55 [] c = "8" -> 56 [] c = "9" -> 57

\* a < b on strings: the first differing character decides, a proper prefix is less
RECURSIVE str_lt(_, _)
str_lt(a, b) ==
    IF Len(b) = 0 THEN FALSE
    ELSE IF Len(a) = 0 THEN TRUE
    ELSE IF a[1] # b[1] THEN Ord(a[1]) < Ord(b[1])
    ELSE str_lt(Tail(a), Tail(b))

str_ge(a, b) == ~str_lt(a, b)

(***************************** dates and times *****************************)
DigitChar(k) ==
    CASE k = 0 -> "0" [] k = 1 -> "1" [] k = 2 -> "2" [] k = 3 -> "3" [] k = 4 -> "4"
      [] k = 5 -> "5" [] k = 6 -> "6" [] k = 7 -> "7" [] k = 8 -> "8" [] k = 9 -> "9"

Pad2(n) == <<DigitChar(n \div 10), DigitChar(n % 10)>>

Pad4(n) ==
    <<DigitChar(n \div 1000), DigitChar((n \div 100) % 10),
      DigitChar((n \div 10) % 10), DigitChar(n % 10)>>

\* the calendar date of a day number: day 0 is 2025-09-29, day 2 is 2025-10-01
DateOfDay(n) == IF n <= 1 THEN <<2025, 9, 29 + n>> ELSE <<2025, 10, n - 1>>

\* date.isoformat(): YYYY-MM-DD, zero padded
isoformat(d) == Pad4(d[1]) \o <<"-">> \o Pad2(d[2]) \o <<"-">> \o Pad2(d[3])

today_iso == isoformat(DateOfDay(today))

\* a datetime.time is <<hour, minute>>
minutes(t) == t[1] * 60 + t[2]

\* t_to <= t_from on datetime.time values
\* variant: t_to < t_from, which lets equal bounds through
time_lt(a, b) == a[1] < b[1] \/ (a[1] = b[1] /\ a[2] < b[2])

time_le(a, b) == a[1] < b[1] \/ (a[1] = b[1] /\ a[2] <= b[2])

ranges_overlap(a_min, a_max, b_min, b_max) == (a_min <= b_max) /\ (b_min <= a_max)

price_overlap(a_min, a_max, b_min, b_max) == (a_min <= b_max) /\ (b_min <= a_max)


(***************************** ids *****************************************)
\* an in-memory _id is a str; a MongoDB _id is an ObjectId, and the handlers
\* hold str(ObjectId).  The two never compare equal.
py_str(x) == [t |-> "str", n |-> x.n]

ObjectId(s) == [t |-> "oid", n |-> s.n]

NoId == [t |-> "none", n |-> 0]

(***************************** storage *************************************)
\* store[i].date >= today_iso in memory, delete_many({"date": {"$lt": today_iso}})
\* in MongoDB; dbFails is the driver raising inside the try
\* the sweep with date > today_iso for date >= today_iso
cleanup_today_too(docs, isMongo, dbFails) ==
    IF isMongo /\ dbFails
    THEN [docs |-> docs, deleted_count |-> 0, error |-> TRUE]
    ELSE [docs |-> SelectSeq(docs, LAMBDA d : str_lt(today_iso, d.date)),
          deleted_count |->
              Len(docs) - Len(SelectSeq(docs, LAMBDA d : str_lt(today_iso, d.date))),
          error |-> FALSE]

cleanup_expired_trips(docs, isMongo, dbFails) ==
    LET kept == SelectSeq(docs, LAMBDA d : str_ge(d.date, today_iso))
        expired == SelectSeq(docs, LAMBDA d : str_lt(d.date, today_iso))
    IN  IF ~isMongo
        THEN [docs |-> kept, deleted_count |-> Len(docs) - Len(kept), error |-> FALSE]
        ELSE IF dbFails
        THEN [docs |-> docs, deleted_count |-> 0, error |-> TRUE]
        ELSE [docs |-> SelectSeq(docs, LAMBDA d : ~str_lt(d.date, today_iso)),
              deleted_count |-> Len(expired), error |-> FALSE]

save_doc(docs, doc, isMongo, oid) ==
    IF ~isMongo
    THEN LET id == py_str([n |-> Len(docs) + 1])
         IN  [docs |-> Append(docs, [doc EXCEPT !.id = id]), id |-> id]
    ELSE LET inserted_id == [t |-> "oid", n |-> oid]
         IN  [docs |-> Append(docs, [doc EXCEPT !.id = inserted_id]),
              id |-> py_str(inserted_id)]

\* the first position of docs that satisfies the filter, 0 when there is none
FirstMatch(docs, doc_id, contact) ==
    LET hits == {i \in 1..Len(docs) : docs[i].id = doc_id /\ docs[i].contact = contact}
    IN  IF hits = {} THEN 0 ELSE CHOOSE i \in hits : \A j \in hits : i <= j

RemoveAt(docs, i) == SubSeq(docs, 1, i - 1) \o SubSeq(docs, i + 1, Len(docs))

delete_doc(docs, doc_id, contact, isMongo) ==
    IF ~isMongo
    THEN LET kept == SelectSeq(docs,
                        LAMBDA d : ~(py_str(d.id) = doc_id /\ d.contact = contact))
         IN  [docs |-> kept, ok |-> Len(kept) < Len(docs)]
    ELSE LET i == FirstMatch(docs, ObjectId(doc_id), contact)
         IN  IF i = 0 THEN [docs |-> docs, ok |-> FALSE]
             ELSE [docs |-> RemoveAt(docs, i), ok |-> TRUE]

Reverse(s) == [i \in 1..Len(s) |-> s[Len(s) + 1 - i]]

\* MongoDB sorts by created_at descending: the latest script run's post first
fetch_by_contact(docs, contact, isMongo) ==
    LET mine == SelectSeq(docs, LAMBDA d : d.contact = contact)
    IN  IF ~isMongo THEN mine ELSE Reverse(mine)

\* the guard with the date and the route key swapped in the comparison
doc_exists_swapped(docs, contact, trip_date_iso, route_key, isMongo, dbFails) ==
    IF isMongo /\ dbFails THEN FALSE
    ELSE \E i \in 1..Len(docs) :
            /\ docs[i].contact = contact
            /\ docs[i].date = route_key
            /\ docs[i].route_key = trip_date_iso

\* variant: a check that raises blocks the post
doc_exists_fail_closed(docs, contact, trip_date_iso, route_key, isMongo, dbFails) ==
    \/ isMongo /\ dbFails
    \/ \E i \in 1..Len(docs) :
          /\ docs[i].contact = contact
          /\ docs[i].date = trip_date_iso
          /\ docs[i].route_key = route_key

doc_exists_for_contact_date_and_route(docs, contact, trip_date_iso, route_key, isMongo, dbFails) ==
    IF isMongo /\ dbFails THEN FALSE
    ELSE \E i \in 1..Len(docs) :
            /\ docs[i].contact = contact
            /\ docs[i].date = trip_date_iso
            /\ docs[i].route_key = route_key

(***************************** matching engine *****************************)
NoTime == <<>>
T_FROM_DEFAULT == <<0, 0>>
T_TO_DEFAULT == <<23, 59>>
MAX_RESULTS == 50

Abs(x) == IF x < 0 THEN -x ELSE x

Min(a, b) == IF a <= b THEN a ELSE b

\* sorting a sequence of <<key, doc>> pairs by key, ascending and stable, the
\* keys being pairs of integers compared as Python compares tuples
KeyLt(a, b) == a[1] < b[1] \/ (a[1] = b[1] /\ a[2] < b[2])

RECURSIVE InsertKeyed(_, _)
InsertKeyed(p, s) ==
    IF Len(s) = 0 THEN <<p>>
    ELSE IF KeyLt(p[1], s[1][1]) THEN <<p>> \o s
    ELSE <<s[1]>> \o InsertKeyed(p, Tail(s))

RECURSIVE SortKeyed(_)
SortKeyed(s) ==
    IF Len(s) = 0 THEN <<>>
    ELSE InsertKeyed(s[Len(s)], SortKeyed(SubSeq(s, 1, Len(s) - 1)))

Unkey(s) == [i \in 1..Len(s) |-> s[i][2]]

\* the words w of s.split() that pass `w and ...`
words(s) == {w \in {split(s)[k] : k \in 1..Len(split(s))} : Len(w) > 0}

\* variant: only the query's words are looked for in the stored string
field_score_query_words(q, d) ==
    IF str_in(q, d) \/ str_in(d, q) THEN 2
    ELSE IF \E w \in words(q) : str_in(w, d) THEN 1
    ELSE 0

\* one field's contribution, doubled: 2 for a substring either way, 1 for a
\* shared word, 0 otherwise; q and d are lowercased and stripped
field_score(q, d) ==
    IF str_in(q, d) \/ str_in(d, q) THEN 2
    ELSE IF \E w \in words(q) : str_in(w, d) THEN 1
    ELSE IF \E w \in words(d) : str_in(w, q) THEN 1
    ELSE 0

\* origin.lower().strip() if origin else None
lower_or_none(s) == IF truthy(s) THEN strip(lower(s)) ELSE None

half_score(q_lower, d_field) ==
    IF truthy(q_lower) THEN field_score(q_lower, strip(lower(d_field))) ELSE 0

similarity_score(origin, destination, d) ==
    half_score(lower_or_none(origin), d.origin)
    + half_score(lower_or_none(destination), d.destination)

\* a candidate with its _similarity_score (0 when none was set) and _time_score
scored_doc(d, sim) == [doc |-> d, sim |-> sim, time |-> 0]

\* the query and, when origin or destination is given, the similarity filter
\* and the sort by similarity, descending
route_stage(found, origin, destination) ==
    IF truthy(origin) \/ truthy(destination)
    THEN Unkey(SortKeyed(
            SelectSeq([i \in 1..Len(found) |->
                          <<<<-similarity_score(origin, destination, found[i]), 0>>,
                            scored_doc(found[i],
                                       similarity_score(origin, destination, found[i]))>>],
                      LAMBDA p : p[2].sim > 0)))
    ELSE [i \in 1..Len(found) |-> scored_doc(found[i], 0)]

\* variant: midA taken as (tA_min + tA_min) / 2.0
time_score_from_twice(tA_min, tA_max, d) ==
    Abs((tA_min + tA_min) - (d.time_from_minutes + d.time_to_minutes))

\* variant: open intervals
time_filter_open(tA_min, tA_max, d) ==
    (d.time_from_minutes < tA_max) /\ (d.time_to_minutes > tA_min)

\* twice the _time_score of candidate d against the query window
time_score(tA_min, tA_max, d) ==
    Abs((tA_min + tA_max) - (d.time_from_minutes + d.time_to_minutes))

time_filter(tA_min, tA_max, d) ==
    (d.time_from_minutes <= tA_max) /\ (d.time_to_minutes >= tA_min)

\* the overlap filter and the sort by (_time_score, -_similarity_score)
time_window(routed, tA_min, tA_max) ==
    Unkey(SortKeyed(
        [i \in 1..Len(routed) |->
            <<<<time_score(tA_min, tA_max, routed[i].doc), -routed[i].sim>>,
              [routed[i] EXCEPT !.time = time_score(tA_min, tA_max, routed[i].doc)]>>]))

time_stage(routed, t_from, t_to) ==
    IF t_from # NoTime /\ t_to # NoTime
    THEN time_window(SelectSeq(routed, LAMBDA c :
                        time_filter(minutes(t_from), minutes(t_to), c.doc)),
                     minutes(t_from), minutes(t_to))
    ELSE routed

date_query(docs, trip_date) ==
    IF truthy(trip_date) THEN SelectSeq(docs, LAMBDA d : d.date = trip_date) ELSE docs

truncate(docs, max_results) == SubSeq(docs, 1, Min(Len(docs), max_results))

Docs(cands) == [i \in 1..Len(cands) |-> cands[i].doc]

find_matches(docs, isMongo, dbFails, origin, destination, trip_date, t_from, t_to, max_results) ==
    IF ~isMongo THEN <<>>
    ELSE IF dbFails THEN <<>>
    ELSE Docs(truncate(time_stage(route_stage(date_query(docs, trip_date),
                                              origin, destination),
                                  t_from, t_to),
                       max_results))

\* the elements of s at the positions in keep, in order
RECURSIVE Subsequence(_, _)
Subsequence(s, keep) ==
    IF Len(s) = 0 THEN <<>>
    ELSE Subsequence(SubSeq(s, 1, Len(s) - 1), keep)
         \o (IF Len(s) \in keep THEN <<s[Len(s)]>> ELSE <<>>)

(***************************** notification dispatcher *********************)
\* recipient_email None makes smtplib's sendmail raise inside the try
send_email_notification(recipient_email, mailConfigured, smtpOk) ==
    IF ~mailConfigured THEN FALSE
    ELSE IF recipient_email = None THEN FALSE
    ELSE smtpOk

\* origin_match / dest_match; search and user are lowercased and stripped
location_match(search, user) ==
    \/ str_in(search, user)
    \/ str_in(user, search)
    \/ \E i \in 1..Len(split(search)) : str_in(split(search)[i], user)
    \/ \E i \in 1..Len(split(user)) : str_in(split(user)[i], search)

\* col.find({"notify_matches": True, "email": {"$exists": True, "$ne": ""},
\*           "date": trip_date}): a stored null email satisfies both operators
notify_query(docs, trip_date) ==
    SelectSeq(docs, LAMBDA d : d.notify_matches /\ d.email # <<>> /\ d.date = trip_date)

\* variant: one matching end is enough
notify_gate_either(user, origin, destination) ==
    \/ location_match(strip(lower(origin)), strip(lower(user.origin)))
    \/ location_match(strip(lower(destination)), strip(lower(user.destination)))

notify_gate(user, origin, destination) ==
    /\ location_match(strip(lower(origin)), strip(lower(user.origin)))
    /\ location_match(strip(lower(destination)), strip(lower(user.destination)))

\* one pass of the loop body, matches being what find_matches returned,
\* filtered_matches the matches that are not the user's own posts, and wanted
\* the three conditions a send needs
attempt(user, e, matches, filtered_matches, wanted) ==
    [made |-> wanted, user |-> user.id, to |-> user.email,
     found |-> IF wanted THEN matches ELSE <<>>,
     matches |-> IF wanted THEN filtered_matches ELSE <<>>,
     sent |-> wanted /\ send_email_notification(user.email, e.mailConfigured, e.smtpOk)]

others_posts(matches, user) == SelectSeq(matches, LAMBDA m : m.contact # user.contact)

notify_matched(user, origin, destination, exclude_contact, e, matches) ==
    attempt(user, e, matches, others_posts(matches, user),
            /\ user.contact # exclude_contact
            /\ notify_gate(user, origin, destination)
            /\ Len(others_posts(matches, user)) > 0)

notify_user(docs, user, origin, destination, trip_date, exclude_contact, e) ==
    notify_matched(user, origin, destination, exclude_contact, e,
                   find_matches(docs, TRUE, e.findFails, origin, destination,
                                trip_date, T_FROM_DEFAULT, T_TO_DEFAULT, MAX_RESULTS))

\* the passes that ran.  A failed send reports through st.warning / st.error,
\* which raises once the client has disconnected, and that ends the loop.
notify_loop(tried, disconnected) ==
    Subsequence(tried,
        {i \in 1..Len(tried) :
            /\ tried[i].made
            /\ ~disconnected \/ \A j \in 1..(i - 1) : ~tried[j].made \/ tried[j].sent})

\* the send attempts of one call, in order; a failed query ends it before the loop
check_and_notify_matches(docs, isMongo, origin, destination, trip_date, exclude_contact, e) ==
    IF ~isMongo \/ e.queryFails THEN <<>>
    ELSE notify_loop([i \in 1..Len(notify_query(docs, trip_date)) |->
                        notify_user(docs, notify_query(docs, trip_date)[i], origin,
                                    destination, trip_date, exclude_contact, e)],
                     e.disconnected)

(***************************** form helpers ********************************)
Other == <<"O", "t", "h", "e", "r">>

normalize_city(city, other) == IF city = Other THEN strip(other) ELSE city

\* default_max of the post form and of the search form
POST_PRICE_MAX == 60
SEARCH_PRICE_MAX == 100

\* variant: the maximum's widget hands back whatever was typed
price_range_inputs_as_typed(pmin, pmax, default_max) ==
    [raised |-> default_max < pmin, pmin |-> pmin, pmax |-> pmax]

\* the two st.number_input widgets, pmin and pmax being what was typed.  The
\* maximum's widget has min_value=pmin and value=default_max: it raises when
\* default_max is below pmin, which ends the script run before any handler;
\* min_value is part of the widget's identity, so a typed maximum below the
\* newly typed minimum belongs to a widget that no longer exists and the new
\* one hands back its default.
price_range_inputs(pmin, pmax, default_max) ==
    [raised |-> default_max < pmin, pmin |-> pmin,
     pmax |-> IF pmax >= pmin THEN pmax ELSE default_max]

\* f"{origin...}→{dest...}"; ">" stands for the arrow
make_route_key(origin, dest) ==
    lower(replace_spaces(strip(origin))) \o <<">">> \o lower(replace_spaces(strip(dest)))

make_doc(f, origin, dest, route_key, trip_date_iso) ==
    [id |-> NoId,
     name |-> strip(f.name),
     contact |-> strip(f.contact),
     email |-> IF truthy(strip(f.email)) THEN strip(f.email) ELSE None,
     bags |-> f.bags,
     origin |-> origin,
     destination |-> dest,
     route_key |-> route_key,
     date |-> trip_date_iso,
     time_from_minutes |-> f.t_from[1] * 60 + f.t_from[2],
     time_to_minutes |-> f.t_to[1] * 60 + f.t_to[2],
     price_min |-> f.pmin,
     price_max |-> f.pmax,
     prefs |-> strip(f.prefs),
     notify_matches |-> f.notify_matches]

(***************************** the post handler ****************************)
\* variant: a failed send takes the new record back out
after_notify_rollback(docs, attempts) ==
    IF \E i \in 1..Len(attempts) : ~attempts[i].sent
    THEN SubSeq(docs, 1, Len(docs) - 1)
    ELSE docs

\* the store after save_doc and the notification attempt
after_notify(docs, attempts) == docs

rejected(docs, why) ==
    [docs |-> docs, outcome |-> why, id |-> NoId, attempts |-> <<>>, shown |-> <<>>]

\* "See matches now": the matches whose _id is not the id save_doc returned
see_matches(matches, id) == SelectSeq(matches, LAMBDA m : m.id # id)

posted(f, e, isMongo, origin, dest, trip_date_iso, docs, id, attempts) ==
    [docs |-> docs, outcome |-> "posted", id |-> id, attempts |-> attempts,
     shown |-> see_matches(find_matches(docs, isMongo, e.findFails, origin, dest,
                               trip_date_iso, f.t_from, f.t_to, MAX_RESULTS), id)]

notified(f, e, isMongo, origin, dest, trip_date_iso, saved, attempts) ==
    posted(f, e, isMongo, origin, dest, trip_date_iso,
           after_notify(saved.docs, attempts), saved.id, attempts)

accepted(f, e, isMongo, origin, dest, trip_date_iso, saved) ==
    notified(f, e, isMongo, origin, dest, trip_date_iso, saved,
             check_and_notify_matches(saved.docs, isMongo, origin, dest,
                                      trip_date_iso, strip(f.contact), e))

validated(docs, f, e, isMongo, oid, origin, dest, trip_date_iso, route_key) ==
    IF ~truthy(f.name) \/ ~truthy(f.contact) \/ ~truthy(origin) \/ ~truthy(dest)
    THEN rejected(docs, "required")
    ELSE IF time_le(f.t_to, f.t_from) THEN rejected(docs, "time_range")
    ELSE IF doc_exists_for_contact_date_and_route(docs, strip(f.contact),
                trip_date_iso, route_key, isMongo, e.existsFails)
    THEN rejected(docs, "duplicate")
    ELSE accepted(f, e, isMongo, origin, dest, trip_date_iso,
                  save_doc(docs, make_doc(f, origin, dest, route_key, trip_date_iso),
                           isMongo, oid))

routed_form(docs, f, e, isMongo, oid, origin, dest) ==
    validated(docs, f, e, isMongo, oid, origin, dest,
              isoformat(DateOfDay(f.trip_date)), make_route_key(origin, dest))

post_form(docs, f, e, isMongo, oid) ==
    IF price_range_inputs(f.pmin, f.pmax, POST_PRICE_MAX).raised
    THEN rejected(docs, "widget_error")
    ELSE routed_form(docs,
                     [f EXCEPT !.pmax = price_range_inputs(f.pmin, f.pmax,
                                                           POST_PRICE_MAX).pmax],
                     e, isMongo, oid,
                     normalize_city(f.orig_city, f.orig_other),
                     normalize_city(f.dest_city, f.dest_other))

\* the post handler up to the answer of the duplicate guard: what it reports,
\* or "passed" when the next statement is the insert
check_form(docs, f, e, isMongo, origin, dest) ==
    IF price_range_inputs(f.pmin, f.pmax, POST_PRICE_MAX).raised THEN "widget_error"
    ELSE IF ~truthy(f.name) \/ ~truthy(f.contact) \/ ~truthy(origin) \/ ~truthy(dest)
    THEN "required"
    ELSE IF time_le(f.t_to, f.t_from) THEN "time_range"
    ELSE IF doc_exists_for_contact_date_and_route(docs, strip(f.contact),
                isoformat(DateOfDay(f.trip_date)), make_route_key(origin, dest),
                isMongo, e.existsFails)
    THEN "duplicate"
    ELSE "passed"

\* the post handler from the insert on
insert_form(docs, f, e, isMongo, oid, origin, dest) ==
    accepted(f, e, isMongo, origin, dest, isoformat(DateOfDay(f.trip_date)),
             save_doc(docs, make_doc(f, origin, dest, make_route_key(origin, dest),
                                     isoformat(DateOfDay(f.trip_date))),
                      isMongo, oid))

(***************************** the search handler **************************)
text_filter(results, text) ==
    IF truthy(text)
    THEN SelectSeq(results, LAMBDA r : str_in(lower(text), lower(r.prefs)))
    ELSE results

bags_filter(results, bags_max) == SelectSeq(results, LAMBDA r : r.bags <= bags_max)

\* what the handler reports above the list: st.info when nothing is left to
\* show, st.caption otherwise; no path of the handler or of find_matches
\* calls st.error
search_notice(shown) == IF shown = <<>> THEN "info" ELSE "caption"

searched(q, results) ==
    [outcome |-> "searched", results |-> results,
     shown |-> bags_filter(text_filter(results, q.text), q.bags_max),
     notice |-> search_notice(bags_filter(text_filter(results, q.text), q.bags_max))]

search_form(docs, q, e, isMongo) ==
    IF price_range_inputs(q.pmin, q.pmax, SEARCH_PRICE_MAX).raised
    THEN [outcome |-> "widget_error", results |-> <<>>, shown |-> <<>>,
          notice |-> "exception"]
    ELSE searched(q, find_matches(docs, isMongo, e.findFails,
                        strip(normalize_city(q.orig_city, q.orig_other)),
                        strip(normalize_city(q.dest_city, q.dest_other)),
                        isoformat(DateOfDay(q.date)), q.t_from, q.t_to, MAX_RESULTS))

(***************************** actions *************************************)
\* line 549: every script run starts with the sweep
RunStart(fails) ==
    /\ phase = "idle"
    /\ \E r \in {cleanup_expired_trips(store, mongo, fails)} :
           /\ store' = r.docs
           /\ last' = [op |-> "cleanup", deleted_count |-> r.deleted_count,
                       error |-> r.error]
    /\ phase' = "run"
    /\ UNCHANGED <<sessions, mongo, today, nextOid>>

\* the run ends with no form submitted and no button pressed
RunEnd ==
    /\ phase = "run"
    /\ phase' = "idle"
    /\ last' = [op |-> "none"]
    /\ UNCHANGED <<sessions, mongo, store, today, nextOid>>

\* "Clean Expired Trips": the sweep again, then st.rerun()
CleanButton(fails) ==
    /\ phase = "run"
    /\ \E r \in {cleanup_expired_trips(store, mongo, fails)} :
           /\ store' = r.docs
           /\ last' = [op |-> "cleanup", deleted_count |-> r.deleted_count,
                       error |-> r.error]
    /\ phase' = "idle"
    /\ UNCHANGED <<sessions, mongo, today, nextOid>>

PostSubmit(f, e) ==
    /\ phase = "run"
    /\ \E r \in {post_form(store, f, e, mongo, nextOid)} :
           /\ r.outcome = "posted" => Len(store) < MaxDocs /\ (mongo => nextOid <= MaxOid)
           /\ store' = r.docs
           /\ nextOid' = IF mongo /\ r.outcome = "posted" THEN nextOid + 1 ELSE nextOid
           /\ last' = [op |-> "post", form |-> f, outcome |-> r.outcome, id |-> r.id,
                       env |-> e,
                       attempts |-> r.attempts, shown |-> r.shown]
    /\ phase' = "idle"
    /\ UNCHANGED <<sessions, mongo, today>>

SearchSubmit(q, e) ==
    /\ phase = "run"
    /\ \E r \in {search_form(store, q, e, mongo)} :
           last' = [op |-> "search", query |-> q, env |-> e, outcome |-> r.outcome,
                    results |-> r.results, shown |-> r.shown, notice |-> r.notice]
    /\ phase' = "idle"
    /\ UNCHANGED <<sessions, mongo, store, today, nextOid>>

\* "Delete this post" on the k-th post listed for contact_m, then st.rerun()
ManageDelete(contact_m, k) ==
    /\ phase = "run"
    /\ truthy(contact_m)
    /\ \E my_posts \in {fetch_by_contact(store, strip(contact_m), mongo)} :
           /\ k \in 1..Len(my_posts)
           /\ \E r \in {delete_doc(store, py_str(my_posts[k].id), strip(contact_m), mongo)} :
                  /\ store' = r.docs
                  /\ last' = [op |-> "delete", doc_id |-> py_str(my_posts[k].id),
                              contact |-> strip(contact_m), ok |-> r.ok]
    /\ phase' = "idle"
    /\ UNCHANGED <<sessions, mongo, today, nextOid>>

\* delete_doc called with any id and any contact
DeleteDocCall(doc_id, contact) ==
    /\ phase = "run"
    /\ \E r \in {delete_doc(store, doc_id, contact, mongo)} :
           /\ store' = r.docs
           /\ last' = [op |-> "delete", doc_id |-> doc_id, contact |-> contact,
                       ok |-> r.ok]
    /\ phase' = "idle"
    /\ UNCHANGED <<sessions, mongo, today, nextOid>>

\* midnight passes
Tick ==
    /\ today < MaxDay
    /\ today' = today + 1
    /\ UNCHANGED <<sessions, mongo, store, nextOid, last, phase>>

\* the browser sessions served at once
Sessions == {"s1", "s2"}

\* a session with no post between its check and its insert
Waiting == [pc |-> "idle"]

Pending == {s \in Sessions : sessions[s].pc = "insert"}

\* session s submits form f: its script run sweeps, validates and asks the
\* store whether the key exists; the insert is a later storage operation
SessionCheck(s, f, e) ==
    /\ phase = "idle"
    /\ sessions[s] = Waiting
    /\ Len(store) + Cardinality(Pending) < MaxDocs
    /\ mongo => nextOid + Cardinality(Pending) <= MaxOid
    /\ store' = cleanup_expired_trips(store, mongo, FALSE).docs
    /\ \E c \in {check_form(cleanup_expired_trips(store, mongo, FALSE).docs, f, e,
                             mongo, normalize_city(f.orig_city, f.orig_other),
                             normalize_city(f.dest_city, f.dest_other))} :
           IF c = "passed"
           THEN /\ sessions' = [sessions EXCEPT ![s] = [pc |-> "insert", form |-> f]]
                /\ UNCHANGED last
           ELSE /\ last' = [op |-> "post", form |-> f, outcome |-> c, id |-> NoId,
                            env |-> e, attempts |-> <<>>, shown |-> <<>>]
                /\ UNCHANGED sessions
    /\ UNCHANGED <<mongo, today, nextOid, phase>>

\* session s goes on from the answer 'not existing': insert, notifications,
\* matches
SessionInsert(s, e) ==
    /\ phase = "idle"
    /\ sessions[s].pc = "insert"
    /\ \E r \in {insert_form(store, sessions[s].form, e, mongo, nextOid,
                               normalize_city(sessions[s].form.orig_city,
                                              sessions[s].form.orig_other),
                               normalize_city(sessions[s].form.dest_city,
                                              sessions[s].form.dest_other))} :
           /\ store' = r.docs
           /\ last' = [op |-> "post", form |-> sessions[s].form, outcome |-> r.outcome,
                       id |-> r.id, env |-> e, attempts |-> r.attempts,
                       shown |-> r.shown]
    /\ nextOid' = IF mongo THEN nextOid + 1 ELSE nextOid
    /\ sessions' = [sessions EXCEPT ![s] = Waiting]
    /\ UNCHANGED <<mongo, today, phase>>

Init ==
    /\ mongo \in BOOLEAN
    /\ store = <<>>
    /\ today = 1
    /\ nextOid = 1
    /\ last = [op |-> "start"]
    /\ phase = "idle"
    /\ sessions = [s \in Sessions |-> Waiting]

(***************************** inputs **************************************)
Amherst == <<"A", "m", "h", "e", "r", "s", "t">>
Boston == <<"B", "o", "s", "t", "o", "n">>
NewYork == <<"N", "e", "w", " ", "Y", "o", "r", "k">>
CITIES == {Amherst, Boston, NewYork, Other}

Al == <<"A", "l">>
Blank == <<" ", " ">>
Phone1 == <<"5", "5", "1">>
Phone2 == <<"5", "5", "2">>
Phone2Typed == <<" ", "5", "5", "2">>
Mail1 == <<"a", "@", "u">>

\* a post form as the widgets first show it, filled in by one rider
BaseForm ==
    [name |-> Al, contact |-> Phone1, email |-> <<>>, bags |-> 0,
     orig_city |-> Amherst, orig_other |-> <<>>,
     dest_city |-> Boston, dest_other |-> <<>>,
     trip_date |-> 1, t_from |-> <<8, 0>>, t_to |-> <<10, 0>>,
     pmin |-> 20, pmax |-> 40, prefs |-> <<>>, notify_matches |-> FALSE]

\* what the environment does to one script run
CalmEnv ==
    [existsFails |-> FALSE, findFails |-> FALSE, queryFails |-> FALSE,
     mailConfigured |-> TRUE, smtpOk |-> TRUE, disconnected |-> FALSE]

(***************************** the store's life ****************************)
LifeForms ==
    {[BaseForm EXCEPT !.contact = c, !.trip_date = d] :
        c \in {Phone1, Phone2Typed}, d \in 0..MaxDay}

LifeEnvs == {[CalmEnv EXCEPT !.existsFails = x] : x \in BOOLEAN}

StrIds == {[t |-> "str", n |-> i] : i \in 1..MaxOid}

Next ==
    \/ \E fails \in BOOLEAN : RunStart(fails)
    \/ RunEnd
    \/ \E fails \in BOOLEAN : CleanButton(fails)
    \/ \E f \in LifeForms, e \in LifeEnvs : PostSubmit(f, e)
    \/ \E c \in {Phone1, Phone2Typed}, k \in 1..MaxDocs : ManageDelete(c, k)
    \/ \E i \in StrIds, c \in {Phone1, Phone2} : DeleteDocCall(i, c)
    \/ Tick

Spec == Init /\ [][Next]_vars

(***************************** validation ***********************************)
ValidationForms ==
    {[BaseForm EXCEPT !.name = n, !.contact = c, !.orig_other = o[2], !.orig_city = o[1],
                      !.dest_city = d[1], !.dest_other = d[2],
                      !.t_from = w[1], !.t_to = w[2], !.pmin = p[1], !.pmax = p[2],
                      !.email = Mail1, !.notify_matches = TRUE] :
        n \in {<<>>, Blank, Al},
        c \in {<<>>, Phone1, Phone2Typed},
        o \in {<<Amherst, <<>>>>, <<Other, Blank>>},
        d \in {<<Boston, <<>>>>, <<Other, <<>>>>},
        w \in {<<<<8, 0>>, <<10, 0>>>>, <<<<9, 0>>, <<9, 0>>>>, <<<<10, 0>>, <<8, 0>>>>},
        p \in {<<20, 40>>, <<50, 40>>, <<70, 80>>}}

NextValidation ==
    \/ RunStart(FALSE)
    \/ RunEnd
    \/ \E f \in ValidationForms : PostSubmit(f, CalmEnv)

SpecValidation == Init /\ [][NextValidation]_vars

(***************************** searching ***********************************)
YorkCity == <<"Y", "o", "r", "k", " ", "C", "i", "t", "y">>

\* 08:00-10:00, 09:00-11:00, 09:30-10:30 and 10:10-11:00
PostedWindows ==
    {<<<<8, 0>>, <<10, 0>>>>, <<<<9, 0>>, <<11, 0>>>>,
     <<<<9, 30>>, <<10, 30>>>>, <<<<10, 10>>, <<11, 0>>>>}

\* 09:00-10:00, 09:00-09:30 and 10:00-10:05
QueryWindows ==
    {<<<<9, 0>>, <<10, 0>>>>, <<<<9, 0>>, <<9, 30>>>>, <<<<10, 0>>, <<10, 5>>>>}

SearchedForms ==
    {[BaseForm EXCEPT !.contact = c, !.orig_city = o[1], !.orig_other = o[2],
                      !.dest_city = Boston, !.t_from = w[1], !.t_to = w[2]] :
        c \in {Phone1, Phone2Typed},
        o \in {<<NewYork, <<>>>>, <<Other, YorkCity>>},
        w \in PostedWindows}

BaseQuery ==
    [orig_city |-> NewYork, orig_other |-> <<>>, dest_city |-> Boston,
     dest_other |-> <<>>, date |-> 1, t_from |-> <<0, 0>>, t_to |-> <<23, 59>>,
     pmin |-> 0, pmax |-> 100, bags_max |-> 0, text |-> <<>>]

Queries ==
    {[BaseQuery EXCEPT !.orig_city = o, !.dest_city = d, !.t_from = w[1], !.t_to = w[2]] :
        o \in {NewYork, Amherst}, d \in {Boston, Other}, w \in QueryWindows}

SearchEnvs == {[CalmEnv EXCEPT !.findFails = x] : x \in BOOLEAN}

InitMongo == Init /\ mongo

NextSearch ==
    \/ RunStart(FALSE)
    \/ RunEnd
    \/ \E f \in SearchedForms : PostSubmit(f, CalmEnv)
    \/ \E q \in Queries, e \in SearchEnvs : SearchSubmit(q, e)

SpecSearch == InitMongo /\ [][NextSearch]_vars

(***************************** prices **************************************)
PricedForms ==
    {[BaseForm EXCEPT !.contact = c, !.pmin = p[1], !.pmax = p[2], !.bags = b] :
        c \in {Phone1, Phone2Typed}, p \in {<<50, 80>>, <<20, 30>>}, b \in {0, 1}}

PricedQueries ==
    {[BaseQuery EXCEPT !.orig_city = Amherst, !.pmin = p[1], !.pmax = p[2],
                       !.bags_max = b, !.text = t] :
        p \in {<<10, 60>>, <<10, 40>>, <<0, 100>>}, b \in {0, 1}, t \in {<<>>, Al}}

NextPrices ==
    \/ RunStart(FALSE)
    \/ RunEnd
    \/ \E f \in PricedForms : PostSubmit(f, CalmEnv)
    \/ \E q \in PricedQueries : SearchSubmit(q, CalmEnv)

SpecPrices == InitMongo /\ [][NextPrices]_vars

(***************************** notifying ***********************************)
\* riders who may have asked for notifications
SubscriberForms ==
    {[BaseForm EXCEPT !.contact = Phone1, !.trip_date = v[1], !.orig_city = v[2],
                      !.dest_city = v[3], !.email = m[1], !.notify_matches = m[2]] :
        v \in {<<1, Amherst, Boston>>, <<2, Amherst, Boston>>,
                <<1, NewYork, Boston>>, <<1, Amherst, NewYork>>},
        m \in {<<Mail1, TRUE>>, <<<<>>, TRUE>>, <<Mail1, FALSE>>}}

\* the rider whose post sets the dispatcher off
PosterForms == {[BaseForm EXCEPT !.contact = Phone2Typed]}

NotifyEnvs ==
    {CalmEnv,
     [CalmEnv EXCEPT !.queryFails = TRUE],
     [CalmEnv EXCEPT !.findFails = TRUE],
     [CalmEnv EXCEPT !.mailConfigured = FALSE],
     [CalmEnv EXCEPT !.smtpOk = FALSE],
     [CalmEnv EXCEPT !.smtpOk = FALSE, !.disconnected = TRUE]}

NextNotify ==
    \/ RunStart(FALSE)
    \/ RunEnd
    \/ \E f \in SubscriberForms \cup PosterForms, e \in NotifyEnvs : PostSubmit(f, e)

SpecNotify == InitMongo /\ [][NextNotify]_vars

(***************************** notifying, varied windows *******************)
\* riders of either contact, the first asking for notifications
WindowedForms ==
    {[BaseForm EXCEPT !.contact = c[1], !.email = Mail1, !.notify_matches = c[2],
                      !.orig_city = o[1], !.orig_other = o[2],
                      !.t_from = w[1], !.t_to = w[2]] :
        c \in {<<Phone1, TRUE>>, <<Phone2Typed, FALSE>>},
        o \in {<<NewYork, <<>>>>, <<Other, YorkCity>>},
        w \in {<<<<8, 0>>, <<10, 0>>>>, <<<<9, 0>>, <<11, 0>>>>}}

NextWindowed ==
    \/ RunStart(FALSE)
    \/ RunEnd
    \/ \E f \in WindowedForms : PostSubmit(f, CalmEnv)
    \/ \E c \in {Phone1, Phone2}, k \in 1..MaxDocs : ManageDelete(c, k)

SpecWindowed == InitMongo /\ [][NextWindowed]_vars

(***************************** routes **************************************)
BostonLogan ==
    <<"B", "o", "s", "t", "o", "n", " ", "L", "o", "g", "a", "n", " ",
      "A", "i", "r", "p", "o", "r", "t">>

Yorkville == <<"Y", "o", "r", "k", "v", "i", "l", "l", "e">>

RoutedForms ==
    {[BaseForm EXCEPT !.contact = c, !.orig_city = o[1], !.orig_other = o[2],
                      !.dest_city = Amherst] :
        c \in {Phone1, Phone2Typed},
        o \in {<<Boston, <<>>>>, <<Other, BostonLogan>>, <<NewYork, <<>>>>,
               <<Other, YorkCity>>}}

RoutedQueries ==
    {[BaseQuery EXCEPT !.orig_city = o[1], !.orig_other = o[2], !.dest_city = d] :
        o \in {<<Boston, <<>>>>, <<NewYork, <<>>>>, <<Amherst, <<>>>>,
               <<Other, Yorkville>>, <<Other, Blank>>},
        d \in {Amherst, Other}}

NextRoutes ==
    \/ RunStart(FALSE)
    \/ RunEnd
    \/ \E f \in RoutedForms : PostSubmit(f, CalmEnv)
    \/ \E q \in RoutedQueries : SearchSubmit(q, CalmEnv)

SpecRoutes == InitMongo /\ [][NextRoutes]_vars

(***************************** concurrent sessions *************************)
ConcurrentForms ==
    {[BaseForm EXCEPT !.contact = c, !.trip_date = dt, !.t_to = t] :
        c \in {Phone1, Phone2Typed}, dt \in {1, 2}, t \in {<<10, 0>>, <<8, 0>>}}

NextConcurrent ==
    \/ \E s \in Sessions, f \in ConcurrentForms : SessionCheck(s, f, CalmEnv)
    \/ \E s \in Sessions : SessionInsert(s, CalmEnv)

SpecConcurrent == InitMongo /\ [][NextConcurrent]_vars

(***************************** properties: the store ***********************)
KeyOf(d) == <<d.contact, d.date, d.route_key>>

KeyCount(docs, key) == Cardinality({i \in 1..Len(docs) : KeyOf(docs[i]) = key})

\* the key a submitted form asks to store
FormKey(f) ==
    <<strip(f.contact), isoformat(DateOfDay(f.trip_date)),
      make_route_key(normalize_city(f.orig_city, f.orig_other),
                     normalize_city(f.dest_city, f.dest_other))>>

\* the existence check of the post in l raised and the post went on
GuardError(l) == l.op = "post" /\ l.outcome = "posted" /\ mongo /\ l.env.existsFails

\* the step is a handler of the named kind
HandlerStep(op) == phase = "run" /\ phase' = "idle" /\ last'.op = op

\* the step is a sweep, at the start of a run or from the button
SweepStep == phase' # phase /\ last'.op = "cleanup"

\* C1 as stated: no two stored records ever share (contact, date, route_key).
C1_NoDuplicateKeys ==
    \A i, j \in 1..Len(store) : i # j => KeyOf(store[i]) # KeyOf(store[j])

\* C1, amended: a step gives a key a second record only when it is a post
\* whose existence check raised; and a post whose key is stored and whose
\* check did not raise writes nothing.
C1_DuplicateGuard ==
    [][/\ \/ HandlerStep("post") /\ GuardError(last')
          \/ \A i \in 1..Len(store') :
                \/ KeyCount(store', KeyOf(store'[i])) <= 1
                \/ KeyCount(store', KeyOf(store'[i])) <= KeyCount(store, KeyOf(store'[i]))
       /\ (/\ HandlerStep("post")
           /\ ~GuardError(last')
           /\ KeyCount(store, FormKey(last'.form)) >= 1) => store' = store]_vars

\* a second post of a stored key has been turned away, one record of it stored
C1_Witness ==
    /\ last.op = "post"
    /\ last.outcome = "duplicate"
    /\ KeyCount(store, FormKey(last.form)) = 1

\* C2: delete_doc with a stored record's id and another contact fails and
\* leaves the store as it was; with that record's id and contact it succeeds
\* and removes that record alone.
C2_DeleteAuthorization ==
    [][HandlerStep("delete") =>
        \A i \in 1..Len(store) :
            py_str(store[i].id) = last'.doc_id =>
                /\ store[i].contact # last'.contact => ~last'.ok /\ store' = store
                /\ store[i].contact = last'.contact =>
                        last'.ok /\ store' = RemoveAt(store, i)]_vars

\* the day number an ISO date stands for
DayOfIso(iso) == CHOOSE n \in 0..(MaxDay + 1) : isoformat(DateOfDay(n)) = iso

NotExpired(docs) == SelectSeq(docs, LAMBDA d : DayOfIso(d.date) >= today)

\* what C3 says of one sweep: the records dated before today go, the others
\* stay, and the count returned is the number removed
ExactSweep ==
    /\ store' = NotExpired(store)
    /\ last'.deleted_count = Len(store) - Len(store')
    /\ store' = store => last'.deleted_count = 0

\* C3 as stated: every sweep removes exactly the records dated before today.
C3_SweepAlwaysExact == [][SweepStep => ExactSweep]_vars

\* C3, amended: a sweep whose storage call returns removes exactly the
\* records dated before today and returns their number; a sweep whose storage
\* call raises removes nothing, returns 0 and reports the error.
C3_ExpirySweeper ==
    [][SweepStep =>
        IF last'.error
        THEN mongo /\ store' = store /\ last'.deleted_count = 0
        ELSE ExactSweep]_vars

\* a sweep has removed a record and kept another
C3_Witness ==
    /\ last.op = "cleanup"
    /\ last.deleted_count > 0
    /\ ~last.error
    /\ Len(store) > 0

(***************************** properties: validation ***********************)
\* minutes since midnight of a form's time
FormMinutes(t) == t[1] * 60 + t[2]

\* the window of form f has equal or inverted bounds
BadWindow(f) == FormMinutes(f.t_to) <= FormMinutes(f.t_from)

\* a required field of form f is missing, its window is equal or inverted, or
\* its maximum price is below its minimum
Invalid(f) ==
    \/ Len(f.name) = 0
    \/ Len(f.contact) = 0
    \/ Len(normalize_city(f.orig_city, f.orig_other)) = 0
    \/ Len(normalize_city(f.dest_city, f.dest_other)) = 0
    \/ BadWindow(f)
    \/ f.pmax < f.pmin

\* C4: every stored record has time_from_minutes <= time_to_minutes, and a post
\* whose window has equal or inverted bounds is rejected and never written, so
\* no stored record has equal bounds either.
C4_StoredTimeWindow ==
    /\ \A i \in 1..Len(store) :
          /\ store[i].time_from_minutes <= store[i].time_to_minutes
          /\ store[i].time_from_minutes # store[i].time_to_minutes
    /\ last.op = "post" /\ BadWindow(last.form) =>
          last.outcome \in {"required", "time_range", "widget_error"}

\* a post with equal bounds and nothing else wrong was turned away while a
\* record was stored
C4_Witness ==
    /\ last.op = "post"
    /\ FormMinutes(last.form.t_to) = FormMinutes(last.form.t_from)
    /\ last.outcome = "time_range"
    /\ Len(store) > 0

\* C9: a post that fails validation (a required field missing, time_to <=
\* time_from, a negative price range) leaves the store exactly as it was and
\* dispatches no notification.
C9_ValidationAtomic ==
    [][HandlerStep("post") /\ Invalid(last'.form) =>
          /\ store' = store
          /\ nextOid' = nextOid
          /\ last'.attempts = <<>>]_vars

(***************************** properties: searching ************************)
QueryOrigin(q) == strip(normalize_city(q.orig_city, q.orig_other))

QueryDestination(q) == strip(normalize_city(q.dest_city, q.dest_other))

\* record d passed the date filter and the route filter of query q
Candidate(q, d) ==
    /\ d.date = isoformat(DateOfDay(q.date))
    /\ truthy(QueryOrigin(q)) \/ truthy(QueryDestination(q)) =>
          similarity_score(QueryOrigin(q), QueryDestination(q), d) > 0

\* the search in last ran its query
Searched == last.op = "search" /\ last.outcome = "searched" /\ mongo /\ ~last.env.findFails

Returned(d) == \E k \in 1..Len(last.results) : last.results[k] = d

\* C5: with both time bounds given, a candidate that passed the date and route
\* filters is in the result iff qFrom <= cTo and cFrom <= qTo.
C5_TimeOverlapFilter ==
    Searched =>
        /\ \A i \in 1..Len(store) :
              Candidate(last.query, store[i]) =>
                  (Returned(store[i]) <=>
                      /\ FormMinutes(last.query.t_from) <= store[i].time_to_minutes
                      /\ store[i].time_from_minutes <= FormMinutes(last.query.t_to))
        /\ \A k \in 1..Len(last.results) :
              \E i \in 1..Len(store) :
                  store[i] = last.results[k] /\ Candidate(last.query, store[i])

\* the query 09:00-10:00 kept a record 09:30-10:30 and dropped one 10:10-11:00
C5_Witness ==
    /\ Searched
    /\ FormMinutes(last.query.t_from) = 540 /\ FormMinutes(last.query.t_to) = 600
    /\ \E i, j \in 1..Len(store) :
          /\ Candidate(last.query, store[i]) /\ Candidate(last.query, store[j])
          /\ store[i].time_from_minutes = 570 /\ store[i].time_to_minutes = 630
          /\ store[j].time_from_minutes = 610 /\ store[j].time_to_minutes = 660
          /\ Returned(store[i]) /\ ~Returned(store[j])

\* twice the distance between the midpoints of the window of query q and of d
MidpointDistance(q, d) ==
    Abs((FormMinutes(q.t_from) + FormMinutes(q.t_to))
        - (d.time_from_minutes + d.time_to_minutes))

\* C6: survivors of the overlap filter come ordered by the distance between
\* window midpoints, ascending, and among equal distances by similarity score,
\* descending.
C6_RankByTimeThenSimilarity ==
    Searched =>
        \A j, k \in 1..Len(last.results) :
            j < k =>
                \/ MidpointDistance(last.query, last.results[j])
                       < MidpointDistance(last.query, last.results[k])
                \/ /\ MidpointDistance(last.query, last.results[j])
                          = MidpointDistance(last.query, last.results[k])
                   /\ similarity_score(QueryOrigin(last.query),
                                       QueryDestination(last.query), last.results[j])
                          >= similarity_score(QueryOrigin(last.query),
                                       QueryDestination(last.query), last.results[k])

\* the query 09:00-09:30 ranked a record 08:00-10:00 ahead of a record
\* 09:00-11:00 that was stored before it
C6_Witness ==
    /\ Searched
    /\ FormMinutes(last.query.t_from) = 540 /\ FormMinutes(last.query.t_to) = 570
    /\ Len(store) = 2 /\ Len(last.results) = 2
    /\ store[1].time_from_minutes = 540 /\ store[1].time_to_minutes = 660
    /\ store[2].time_from_minutes = 480 /\ store[2].time_to_minutes = 600
    /\ last.results = <<store[2], store[1]>>

\* C7: when the search supplies a price range, a record is kept only if
\* price_min(Q) <= price_max(C) and price_min(C) <= price_max(Q).
C7_PriceOverlapFilter ==
    last.op = "search" /\ last.outcome = "searched" =>
        \A k \in 1..Len(last.shown) :
            /\ last.query.pmin <= last.shown[k].price_max
            /\ last.shown[k].price_min <= last.query.pmax

(***************************** properties: notifying ************************)
\* the record the post in last asked to store
PostedDoc(l) ==
    make_doc(l.form, normalize_city(l.form.orig_city, l.form.orig_other),
             normalize_city(l.form.dest_city, l.form.dest_other),
             FormKey(l.form)[3], FormKey(l.form)[2])

\* docs ends with the record of the post in l, under the id the post returned
EndsWithPosted(docs, l) ==
    /\ Len(docs) > 0
    /\ [docs[Len(docs)] EXCEPT !.id = NoId] = PostedDoc(l)
    /\ py_str(docs[Len(docs)].id) = l.id

\* C8: once a post has passed validation and the duplicate guard its record is
\* in the store and stays there whatever the notification attempt does: the
\* step appends that record and leaves the earlier ones as they were.
C8_NotificationNonFatal ==
    [][HandlerStep("post") /\ ~Invalid(last'.form)
            /\ KeyCount(store, FormKey(last'.form)) = 0 =>
          /\ last'.outcome = "posted"
          /\ Len(store') = Len(store) + 1
          /\ SubSeq(store', 1, Len(store)) = store
          /\ EndsWithPosted(store', last')]_vars

\* a post's notification attempt failed, or ended in an exception, and its
\* record is stored
C8_Witness ==
    /\ last.op = "post" /\ last.outcome = "posted"
    /\ Len(last.attempts) > 0
    /\ \A i \in 1..Len(last.attempts) : ~last.attempts[i].sent
    /\ ~last.env.smtpOk /\ last.env.disconnected
    /\ EndsWithPosted(store, last)

\* the two strings, lowercased and trimmed, contain one another or share a
\* whitespace-separated token
FuzzyOverlap(a, b) == field_score(strip(lower(a)), strip(lower(b))) > 0

\* C10: an email goes to stored user U only if U asked for notifications, has a
\* non-empty email, has the post's date, has another contact than the poster,
\* and both U's origin overlaps the post's and U's destination overlaps the
\* post's.
C10_NotificationGate ==
    last.op = "post" =>
        \A a \in 1..Len(last.attempts) :
            last.attempts[a].sent =>
                \E i \in 1..Len(store) :
                    /\ store[i].id = last.attempts[a].user
                    /\ store[i].notify_matches
                    /\ store[i].email # <<>> /\ store[i].email # None
                    /\ store[i].email = last.attempts[a].to
                    /\ store[i].date = PostedDoc(last).date
                    /\ store[i].contact # PostedDoc(last).contact
                    /\ FuzzyOverlap(store[i].origin, PostedDoc(last).origin)
                    /\ FuzzyOverlap(store[i].destination, PostedDoc(last).destination)

\* an email about at least one matching post went out
C10_Witness ==
    /\ last.op = "post"
    /\ \E a \in 1..Len(last.attempts) :
          /\ last.attempts[a].sent
          /\ Len(last.attempts[a].matches) > 0

(***************************** properties: omitted time window *************)
\* the call the dispatcher made for attempt a of the post in l: the records of
\* the post's date that overlap its route
RouteCandidates(l) ==
    SelectSeq(store, LAMBDA d :
        /\ d.date = PostedDoc(l).date
        /\ similarity_score(PostedDoc(l).origin, PostedDoc(l).destination, d) > 0)

\* C11: called without a time window, as the dispatcher calls it, find_matches
\* drops no candidate for its time window and returns the candidates in the
\* order of the similarity sort, descending similarity score.
C11_OmittedTimeWindow ==
    last.op = "post" =>
        \A a \in 1..Len(last.attempts) :
            /\ Len(last.attempts[a].found) = Len(RouteCandidates(last))
            /\ \A j, k \in 1..Len(last.attempts[a].found) :
                  j < k =>
                      similarity_score(PostedDoc(last).origin, PostedDoc(last).destination,
                                       last.attempts[a].found[j])
                          >= similarity_score(PostedDoc(last).origin,
                                              PostedDoc(last).destination,
                                              last.attempts[a].found[k])

(***************************** properties: failures *************************)
\* C12: when the existence check raises, the guard reports 'not existing' and
\* the post goes on to the insert, also when its key is already stored.
C12_GuardFailsOpen ==
    [][HandlerStep("post") /\ mongo /\ last'.env.existsFails /\ ~Invalid(last'.form) =>
          /\ last'.outcome = "posted"
          /\ Len(store') = Len(store) + 1
          /\ SubSeq(store', 1, Len(store)) = store
          /\ EndsWithPosted(store', last')]_vars

\* a post whose key was stored went through a raising check and was inserted
C12_Witness ==
    /\ GuardError(last)
    /\ KeyCount(store, FormKey(last.form)) = 2
    /\ EndsWithPosted(store, last)

\* C13: every stored record has price_min <= price_max.
C13_StoredPriceRange ==
    \A i \in 1..Len(store) : store[i].price_min <= store[i].price_max

\* a post typed with its maximum price below its minimum was stored with the
\* widget's default maximum
C13_Witness ==
    /\ last.op = "post"
    /\ last.form.pmax < last.form.pmin
    /\ last.outcome = "posted"
    /\ Len(store) > 0
    /\ store[Len(store)].price_min = last.form.pmin
    /\ store[Len(store)].price_max = POST_PRICE_MAX

\* C14: a failing storage query gives an empty result from find_matches and a
\* zero count from cleanup_expired_trips, each with a visible error, and the
\* store is unchanged.
C14_FailureSurfaced ==
    [][/\ (HandlerStep("search") /\ mongo /\ last'.env.findFails) =>
              /\ last'.results = <<>>
              /\ last'.notice = "error"
              /\ store' = store
       /\ (SweepStep /\ last'.error) =>
              /\ last'.deleted_count = 0
              /\ store' = store]_vars

(***************************** properties: route similarity *****************)
\* the whitespace-separated tokens of a
Tokens(a) == {split(a)[k] : k \in 1..Len(split(a))} \ {<<>>}

\* twice what one field contributes, a and b lowercased and trimmed
Contribution(a, b) ==
    IF str_in(a, b) \/ str_in(b, a) THEN 2
    ELSE IF (\E w \in Tokens(a) : str_in(w, b)) \/ (\E w \in Tokens(b) : str_in(w, a))
    THEN 1
    ELSE 0

\* twice the score of record d for query q, an omitted field adding nothing
RouteScore(q, d) ==
    (IF truthy(QueryOrigin(q))
     THEN Contribution(strip(lower(QueryOrigin(q))), strip(lower(d.origin)))
     ELSE 0)
    + (IF truthy(QueryDestination(q))
       THEN Contribution(strip(lower(QueryDestination(q))), strip(lower(d.destination)))
       ELSE 0)

\* C15: given an origin or a destination, find_matches keeps a date-matching
\* record iff its score is > 0, each given field adding 1.0 for a substring
\* either way, else 0.5 for a shared token, else 0, the same whichever string
\* is the query, and an omitted field adding nothing.
C15_RouteSimilarityFilter ==
    (Searched /\ (truthy(QueryOrigin(last.query)) \/ truthy(QueryDestination(last.query)))) =>
        \A i \in 1..Len(store) :
            /\ (/\ store[i].date = isoformat(DateOfDay(last.query.date))
                /\ FormMinutes(last.query.t_from) <= store[i].time_to_minutes
                /\ store[i].time_from_minutes <= FormMinutes(last.query.t_to)) =>
                  (Returned(store[i]) <=> RouteScore(last.query, store[i]) > 0)
            /\ similarity_score(QueryOrigin(last.query), QueryDestination(last.query),
                                store[i]) = RouteScore(last.query, store[i])
            /\ field_score(strip(lower(store[i].origin)), strip(lower(QueryOrigin(last.query))))
                  = field_score(strip(lower(QueryOrigin(last.query))),
                                strip(lower(store[i].origin)))

\* a search for Boston alone returned a record from Boston Logan Airport and
\* left out a record from elsewhere
C15_Witness ==
    /\ Searched
    /\ QueryOrigin(last.query) = Boston /\ ~truthy(QueryDestination(last.query))
    /\ \E i, j \in 1..Len(store) :
          /\ store[i].origin = BostonLogan /\ Returned(store[i])
          /\ RouteScore(last.query, store[j]) = 0 /\ ~Returned(store[j])

(***************************** properties: concurrent posts *****************)
\* C16: with two sessions posting the same (contact, date, route_key) at once,
\* check and insert being separate storage operations, at most one record of
\* the key ends up stored.
C16_ConcurrentPostsUnique ==
    \A s, t \in Sessions :
        (last.op = "post" /\ last.outcome = "posted" /\ sessions[s] = Waiting
            /\ sessions[t] = Waiting) =>
                KeyCount(store, FormKey(last.form)) <= 1

(***************************** properties: ids *******************************)
\* C17: in the in-memory store no two stored records have the same _id, so
\* delete_doc(id, contact) cannot remove more than one record.
C17_MemoryIdsUnique ==
    [][~mongo =>
          /\ \A i, j \in 1..Len(store') : i # j => store'[i].id # store'[j].id
          /\ HandlerStep("delete") => Len(store) - Len(store') <= 1]_vars

\* C18: the 'See matches now' list of a successful post never holds the record
\* whose stored id is the id save_doc returned for that post.
C18_SeeMatchesExcludesOwn ==
    (last.op = "post" /\ last.outcome = "posted") =>
        \A k \in 1..Len(last.shown) : py_str(last.shown[k].id) # last.id

====
